---- MODULE Spec2Model ----
(***************************************************************************)
(* The App component of src/app/App.js: a React function component that    *)
(* loads a MobileNet classifier, polls camera frames in a                  *)
(* requestAnimationFrame loop and shows the top label once its probability *)
(* passes a threshold.                                                     *)
(*                                                                         *)
(* One action is one JavaScript task run to completion: a promise          *)
(* continuation, an animation-frame callback, a camera onReady callback, a *)
(* button press, the unmount.  Synchronous re-renders inside one task are  *)
(* folded into the task (no callback can run between them).                *)
(*                                                                         *)
(* Probabilities are in hundredths (0.3 is 30).                            *)
(***************************************************************************)
EXTENDS Integers, Sequences, FiniteSets, TLC

\* ---------------------------------------------------------------- bounds
\* Renders of the component in one behaviour (a render is a closure).
MaxRenders == 6

\* ------------------------------------------------------------- constants
\* if(prediction[0].probability > 0.3), in hundredths.
Threshold == 30
\* "only attempt translation when confidence is higher than 20%".
CommentThreshold == 20
\* let requestAnimationFrameId = 0;
RafIdInit == 0

Null == "null"
Model == "mobilenet"
ClassNames == {"cat", "dog"}
Probabilities == {20, 25, 30, 31}

\* What mobilenetModel.classify(tensor, 1) may resolve to: null, an empty
\* array, or an array whose first entry is {className, probability}.
NoTop == [kind |-> "null", className |-> "", probability |-> 0]
ClassifierResults ==
    {NoTop, [NoTop EXCEPT !.kind = "empty"]}
    \cup [kind : {"top"}, className : ClassNames, probability : Probabilities]

VARIABLES
    predictionFound,   \* useState(false)
    hasPermission,     \* useState(null): Null, "true" or "false"
    prediction,        \* useState('')
    mobilenetModel,    \* useState(null): Null or Model
    frameworkReady,    \* useState(false)
    mounted,           \* the App component is mounted
    renders,           \* one closure per render, in render order
    rafPending,        \* animation-frame handles whose callback is pending
    camera,            \* the mounted TensorCamera instance, if any
    initPc,            \* where the initialisation effect's async body is
    cleanupOwner,      \* the render whose closure the unmount cleanup holds
    initLog,           \* history: the initialisation steps taken, in order
    seenAbove,         \* history: classNames of tops received with p > 0.3
    acceptedLoops,     \* history: loops that accepted since the last reset
    last               \* history: the task that ran last

reactState == <<predictionFound, hasPermission, prediction, mobilenetModel,
                frameworkReady>>
vars == <<predictionFound, hasPermission, prediction, mobilenetModel,
          frameworkReady, mounted, renders, rafPending, camera, initPc,
          cleanupOwner, initLog, seenAbove, acceptedLoops, last>>

\* ------------------------------------------------------------- closures
\* What a render's closure captures: the state values of that render and its
\* own `let requestAnimationFrameId`; `loop` is where the loop started by
\* this closure's handleCameraStream is, `stream` the camera instance whose
\* frame iterator it pulls from.
Closure(pf, mm) ==
    [predictionFound |-> pf, mobilenetModel |-> mm,
     requestAnimationFrameId |-> RafIdInit, loop |-> "none", stream |-> 0]

NoCamera == [mountedAt |-> 0, ready |-> FALSE]

\* const TensorCamera = cameraWithTensors(Camera) runs in every render: the
\* component type of render r is a class of its own.
TensorCameraTypeHoisted(r) == 0
TensorCameraType(r) == r

\* React keeps a mounted child only when the element type is the same.
CameraAfterRender(cam, r, pf) ==
    IF pf THEN NoCamera
    ELSE IF cam.mountedAt # 0
            /\ TensorCameraType(cam.mountedAt) = TensorCameraType(r)
         THEN cam
         ELSE [mountedAt |-> r, ready |-> FALSE]

\* The dependency arrays of the two effects, as evaluated in render r.
InitEffectDeps(r) == <<>>
CleanupEffectDeps(r) == <<RafIdInit>>

\* requestAnimationFrame returns a handle distinct from every handle a
\* closure still holds; handles are only compared for equality, so the
\* smallest free one stands for the next one.
HeldIds(rs) == {rs[i].requestAnimationFrameId : i \in 1..Len(rs)}
FreshRafId(rs) ==
    CHOOSE i \in 1..(Len(rs) + 1) :
        /\ i \notin HeldIds(rs)
        /\ \A j \in 1..(i - 1) : j \in HeldIds(rs)

\* cancelAnimationFrame(id)
CancelAnimationFrame(pend, id) == pend \ {id}

\* requestAnimationFrameId = requestAnimationFrame(loop), in closure r.
ScheduleLoop(rs, r) ==
    [rs EXCEPT ![r].requestAnimationFrameId = FreshRafId(rs),
               ![r].loop = "raf"]

\* A loop is live when an iteration is in progress or its callback is pending.
LoopLive(r) ==
    \/ renders[r].loop = "classify"
    \/ renders[r].loop = "raf"
       /\ renders[r].requestAnimationFrameId \in rafPending

\* The frame iterator of a camera yields tensors while that camera is
\* mounted; once it is unmounted the iterator may yield nothing.
StreamLive(r) ==
    mounted /\ camera.mountedAt # 0 /\ camera.mountedAt = renders[r].stream
Frames(r) == IF StreamLive(r) THEN {TRUE} ELSE {TRUE, FALSE}

\* if(prediction[0].probability > 0.3)
AcceptsAtThreshold(res) == res.kind = "top" /\ res.probability >= Threshold
Accepts(res) == res.kind = "top" /\ res.probability > Threshold

Log(op, r, tensor, res, acc) ==
    [op |-> op, r |-> r, tensor |-> tensor, result |-> res, accepted |-> acc]

\* ----------------------------------------------------------- state update
\* The state setters of one task, then the re-render they cause.  A setter
\* on an unmounted component is a no-op; setting equal values does not
\* re-render.  rs, pend, pc, log are the task's own updates so far.
SetState(rs, pend, pc, log, pf, hp, pr, mm, fr) ==
    LET r == Len(rs) + 1
        initAgain == InitEffectDeps(r) # InitEffectDeps(r - 1) /\ ~fr
        cleanAgain == CleanupEffectDeps(r) # CleanupEffectDeps(cleanupOwner)
    IN  IF mounted /\ <<pf, hp, pr, mm, fr>> # reactState
        THEN /\ predictionFound' = pf
             /\ hasPermission' = hp
             /\ prediction' = pr
             /\ mobilenetModel' = mm
             /\ frameworkReady' = fr
             /\ renders' = Append(rs, Closure(pf, mm))
             /\ camera' = CameraAfterRender(camera, r, pf)
             /\ cleanupOwner' = IF cleanAgain THEN r ELSE cleanupOwner
             /\ rafPending' =
                    IF cleanAgain
                    THEN CancelAnimationFrame(
                             pend, rs[cleanupOwner].requestAnimationFrameId)
                    ELSE pend
             /\ initPc' = IF initAgain THEN "permission" ELSE pc
             /\ initLog' = IF initAgain
                           THEN Append(log, "requestPermission") ELSE log
        ELSE /\ UNCHANGED reactState
             /\ renders' = rs
             /\ rafPending' = pend
             /\ initPc' = pc
             /\ initLog' = log
             /\ UNCHANGED <<camera, cleanupOwner>>

\* Whether the task's setters need one more render than the bound allows.
RoomFor(pf, hp, pr, mm, fr) ==
    (mounted /\ <<pf, hp, pr, mm, fr>> # reactState) => Len(renders) < MaxRenders

\* ------------------------------------------------------------------ Init
\* After the first render and its effects: the initialisation effect has
\* called Camera.requestPermissionsAsync(), the camera view is rendered.
Init ==
    /\ predictionFound = FALSE
    /\ hasPermission = Null
    /\ prediction = ""
    /\ mobilenetModel = Null
    /\ frameworkReady = FALSE
    /\ mounted = TRUE
    /\ renders = <<Closure(FALSE, Null)>>
    /\ rafPending = {}
    /\ camera = [mountedAt |-> 1, ready |-> FALSE]
    /\ initPc = "permission"
    /\ cleanupOwner = 1
    /\ initLog = <<"requestPermission">>
    /\ seenAbove = {}
    /\ acceptedLoops = {}
    /\ last = Log("mount", 1, FALSE, NoTop, FALSE)

\* ------------------------------------------------- initialisation effect
\* The async body of the first effect, resumed at pc with the awaited value:
\* the state it sets, where it awaits next, and the steps it takes.
InitResumeEager(pc, value, hp, mm, fr) ==
    CASE pc = "permission" ->
           [hp |-> IF value = "granted" THEN "true" ELSE "false",
            mm |-> mm, fr |-> fr, pc |-> "tfready",
            log |-> <<"setHasPermission">>]
      [] pc = "tfready" ->
           [hp |-> hp, mm |-> mm, fr |-> TRUE, pc |-> "load",
            log |-> <<"tfReady", "setFrameworkReady", "loadModel">>]
      [] OTHER ->
           [hp |-> hp, mm |-> value, fr |-> fr, pc |-> "done",
            log |-> <<"setMobilenetModel">>]
InitResume(pc, value, hp, mm, fr) ==
    CASE pc = "permission" ->
           \* setHasPermission(status === 'granted'); await tf.ready()
           [hp |-> IF value = "granted" THEN "true" ELSE "false",
            mm |-> mm, fr |-> fr, pc |-> "tfready",
            log |-> <<"setHasPermission">>]
      [] pc = "tfready" ->
           \* await loadMobileNetModel()
           [hp |-> hp, mm |-> mm, fr |-> fr, pc |-> "load",
            log |-> <<"tfReady", "loadModel">>]
      [] OTHER ->
           \* setMobilenetModel(model); setFrameworkReady(true)
           [hp |-> hp, mm |-> value, fr |-> TRUE, pc |-> "done",
            log |-> <<"setMobilenetModel", "setFrameworkReady">>]

InitStep(op, value) ==
    LET n == InitResume(initPc, value, hasPermission, mobilenetModel,
                        frameworkReady)
    IN  /\ RoomFor(predictionFound, n.hp, prediction, n.mm, n.fr)
        /\ SetState(renders, rafPending, n.pc, initLog \o n.log,
                    predictionFound, n.hp, prediction, n.mm, n.fr)
        /\ last' = Log(op, 0, FALSE, NoTop, FALSE)
        /\ UNCHANGED <<mounted, seenAbove, acceptedLoops>>

\* Camera.requestPermissionsAsync() resolves.
PermissionResolved ==
    /\ initPc = "permission"
    /\ \E status \in {"granted", "denied"} : InitStep("permission", status)

\* tf.ready() resolves.
TfReady ==
    /\ initPc = "tfready"
    /\ InitStep("tfReady", Null)

\* mobilenet.load() resolves with the model.
ModelLoaded ==
    /\ initPc = "load"
    /\ InitStep("modelLoaded", Model)

\* mobilenet.load() rejects: the async body ends, nothing is set.
ModelLoadFails ==
    /\ initPc = "load"
    /\ initPc' = "failed"
    /\ last' = Log("modelFailed", 0, FALSE, NoTop, FALSE)
    /\ UNCHANGED <<reactState, mounted, renders, rafPending, camera,
                   cleanupOwner, initLog, seenAbove, acceptedLoops>>

\* ------------------------------------------------------------------ loop
\* One iteration of loop up to its first real await, in closure r:
\*   const nextImageTensor = await imageAsTensors.next().value;
\*   await getPrediction(nextImageTensor);
\*   requestAnimationFrameId = requestAnimationFrame(loop);
\* getPrediction returns at once without a tensor, throws on a null model
\* (the loop's promise rejects and nothing is scheduled), and otherwise
\* awaits classify.
LoopIterationStopsWithoutTensor(rs, r, tensor) ==
    IF ~tensor THEN [rs EXCEPT ![r].loop = "none"]
    ELSE IF rs[r].mobilenetModel = Null THEN [rs EXCEPT ![r].loop = "threw"]
    ELSE [rs EXCEPT ![r].loop = "classify"]
LoopIteration(rs, r, tensor) ==
    IF ~tensor THEN ScheduleLoop(rs, r)
    ELSE IF rs[r].mobilenetModel = Null THEN [rs EXCEPT ![r].loop = "threw"]
    ELSE [rs EXCEPT ![r].loop = "classify"]

Pending(pend, rs, r) ==
    IF rs[r].loop = "raf" THEN pend \cup {rs[r].requestAnimationFrameId}
    ELSE pend

\* handleCameraStream in closure r: if(!predictionFound) loop();
HandleCameraStream(rs, r, stream) ==
    IF rs[r].predictionFound THEN rs
    ELSE LoopIteration([rs EXCEPT ![r].stream = stream], r, TRUE)

\* The mounted TensorCamera creates its GL context and calls
\* onReady={(imageAsTensors) => handleCameraStream(imageAsTensors)}.
CameraReady ==
    /\ mounted
    /\ camera.mountedAt # 0
    /\ ~camera.ready
    /\ LET r == Len(renders)
           rs == HandleCameraStream(renders, r, camera.mountedAt)
       IN  /\ renders' = rs
           /\ rafPending' = Pending(rafPending, rs, r)
           /\ last' = Log("cameraReady", r, TRUE, NoTop, FALSE)
    /\ camera' = [camera EXCEPT !.ready = TRUE]
    /\ UNCHANGED <<reactState, mounted, initPc, cleanupOwner, initLog,
                   seenAbove, acceptedLoops>>

\* The animation-frame callback of closure r's loop fires.
AnimationFrame(r) ==
    /\ renders[r].loop = "raf"
    /\ renders[r].requestAnimationFrameId \in rafPending
    /\ \E tensor \in Frames(r) :
         LET rs == LoopIteration(renders, r, tensor)
         IN  /\ renders' = rs
             /\ rafPending' =
                    Pending(rafPending \ {renders[r].requestAnimationFrameId},
                            rs, r)
             /\ last' = Log("frame", r, tensor, NoTop, FALSE)
    /\ UNCHANGED <<reactState, mounted, camera, initPc, cleanupOwner,
                   initLog, seenAbove, acceptedLoops>>

\* mobilenetModel.classify(tensor, 1) resolves in closure r's getPrediction;
\* getPrediction finishes and the loop schedules its next iteration.
Classified(r, res) ==
    /\ renders[r].loop = "classify"
    /\ LET acc == Accepts(res)
           pend == IF acc
                   THEN CancelAnimationFrame(
                            rafPending, renders[r].requestAnimationFrameId)
                   ELSE rafPending
           rs == ScheduleLoop(renders, r)
           pf == IF acc THEN TRUE ELSE predictionFound
           pr == IF acc THEN res.className ELSE prediction
       IN  /\ RoomFor(pf, hasPermission, pr, mobilenetModel, frameworkReady)
           /\ SetState(rs, Pending(pend, rs, r), initPc, initLog,
                       pf, hasPermission, pr, mobilenetModel, frameworkReady)
           /\ last' = Log("classified", r, TRUE, res, acc)
           /\ acceptedLoops' = IF acc THEN acceptedLoops \cup {r}
                                ELSE acceptedLoops
    /\ seenAbove' = IF res.kind = "top" /\ res.probability > Threshold
                    THEN seenAbove \cup {res.className} ELSE seenAbove
    /\ UNCHANGED mounted

\* ------------------------------------------------------------------ user
\* setPrediction(''); setPredictionFound(false);
LoadNewPredictionAll(pf, hp, pr, mm, fr) == <<FALSE, hp, "", Null, FALSE>>
LoadNewPredictionState(pf, hp, pr, mm, fr) == <<FALSE, hp, "", mm, fr>>

\* The "Check new prediction" button, shown in the prediction view.
LoadNewPrediction ==
    /\ mounted
    /\ predictionFound
    /\ Len(renders) + 2 <= MaxRenders
    /\ LET s == LoadNewPredictionState(predictionFound, hasPermission,
                                       prediction, mobilenetModel,
                                       frameworkReady)
       IN  SetState(renders, rafPending, initPc, initLog,
                    s[1], s[2], s[3], s[4], s[5])
    /\ last' = Log("loadNewPrediction", 0, FALSE, NoTop, FALSE)
    /\ acceptedLoops' = {}
    /\ UNCHANGED <<mounted, seenAbove>>

\* The component unmounts: the second effect's cleanup runs
\* cancelAnimationFrame(requestAnimationFrameId) in the closure that
\* registered it, and the camera unmounts with it.
Unmount ==
    /\ mounted
    /\ mounted' = FALSE
    /\ rafPending' =
           CancelAnimationFrame(
               rafPending, renders[cleanupOwner].requestAnimationFrameId)
    /\ camera' = NoCamera
    /\ last' = Log("unmount", 0, FALSE, NoTop, FALSE)
    /\ UNCHANGED <<reactState, renders, initPc, cleanupOwner, initLog,
                   seenAbove, acceptedLoops>>

Next ==
    \/ PermissionResolved
    \/ TfReady
    \/ ModelLoaded
    \/ ModelLoadFails
    \/ CameraReady
    \/ \E r \in 1..Len(renders) : AnimationFrame(r)
    \/ \E r \in 1..Len(renders) : \E res \in ClassifierResults :
           Classified(r, res)
    \/ LoadNewPrediction
    \/ Unmount

Spec == Init /\ [][Next]_vars

\* ------------------------------------------------------------ liveness
\* The classifier answers every frame with a top entry above the threshold.
AboveThreshold == {res \in ClassifierResults :
                       res.kind = "top" /\ res.probability > Threshold}

ClassifiedAbove(r) ==
    /\ r <= Len(renders)
    /\ \E res \in AboveThreshold : Classified(r, res)

LiveNext ==
    \/ PermissionResolved
    \/ TfReady
    \/ ModelLoaded
    \/ ModelLoadFails
    \/ CameraReady
    \/ \E r \in 1..Len(renders) : AnimationFrame(r)
    \/ \E r \in 1..Len(renders) : ClassifiedAbove(r)
    \/ LoadNewPrediction
    \/ Unmount

\* Callbacks that are ready to run do run: the camera's onReady and the
\* continuation of a resolved classify.
LiveSpec ==
    /\ Init
    /\ [][LiveNext]_vars
    /\ WF_vars(CameraReady)
    /\ \A r \in 1..MaxRenders : WF_vars(ClassifiedAbove(r))

\* ---------------------------------------------------------------- claims
LoopTasks == {"cameraReady", "frame", "classified"}
Live == {r \in 1..Len(renders) : LoopLive(r)}

C2_LoopStopsAfterAccept == \A r \in acceptedLoops : ~LoopLive(r)

\* C3: after the component has unmounted, no loop task runs: no frame is
\* pulled, no classify result is handled, no setter is called.
C3_NoLoopTaskAfterUnmount == ~mounted => last.op \notin LoopTasks

\* C4: at most one polling loop is live at any time.
C4_AtMostOneLoopLive == Cardinality(Live) <= 1

\* C5: whenever the app is mounted, initialised and searching, and the
\* classifier answers above the threshold, the prediction view with a label
\* is eventually shown (unless the app is unmounted first).
C5_EventuallyFound ==
    (mounted /\ frameworkReady /\ ~predictionFound)
        ~> (~mounted \/ (predictionFound /\ prediction \in ClassNames
                                        /\ camera = NoCamera))

C5_Witness ==
    /\ mounted
    /\ predictionFound
    /\ camera = NoCamera
    /\ renders[1].loop = "threw"
    /\ Cardinality({r \in 1..Len(renders) :
                       /\ ~renders[r].predictionFound
                       /\ renders[r].mobilenetModel = Model}) >= 2

\* C6: loadNewPrediction sets prediction to '' and predictionFound to false,
\* which renders the camera view, and leaves hasPermission, mobilenetModel
\* and frameworkReady alone; initialisation is not run again.
C6_ResetOnlyPrediction ==
    [][last'.op = "loadNewPrediction" =>
         /\ prediction' = ""
         /\ ~predictionFound'
         /\ camera'.mountedAt = Len(renders')
         /\ UNCHANGED <<hasPermission, mobilenetModel, frameworkReady>>
         /\ UNCHANGED <<initPc, initLog>>]_vars

C6_Witness ==
    /\ last.op = "loadNewPrediction"
    /\ prediction = ""
    /\ mobilenetModel = Model
    /\ frameworkReady
    /\ hasPermission = "true"

\* C7: classify is never reached with a null model, and never before
\* tf.ready() has resolved.
C7_NeverClassifyOnNullModel ==
    \A r \in 1..Len(renders) :
        /\ renders[r].loop # "threw"
        /\ renders[r].loop = "classify" =>
              /\ renders[r].mobilenetModel # Null
              /\ \E i \in 1..Len(initLog) : initLog[i] = "tfReady"

\* C8: a top entry is accepted exactly when its probability is above 20%.
C8_AcceptsAboveTwentyPercent ==
    (last.op = "classified" /\ last.result.kind = "top") =>
        (last.accepted <=> last.result.probability > CommentThreshold)

\* C9: the initialisation steps are taken once and in order, and
\* frameworkReady implies a loaded model and a decided permission.
InitOrder ==
    <<"requestPermission", "setHasPermission", "tfReady", "loadModel",
      "setMobilenetModel", "setFrameworkReady">>

C9_InitOnceInOrder ==
    /\ Len(initLog) <= Len(InitOrder)
    /\ initLog = SubSeq(InitOrder, 1, Len(initLog))
    /\ frameworkReady => (mobilenetModel # Null /\ hasPermission # Null)

C9_Witness ==
    /\ frameworkReady
    /\ initLog = InitOrder
    /\ last.op = "loadNewPrediction"

\* C10: an iteration without a usable guess (no tensor, a null or empty
\* result, a top probability at or below the threshold) leaves
\* predictionFound and prediction alone, cancels no callback, and ends with
\* the loop's next callback pending.
NoUsableGuess(l) ==
    \/ l.op = "frame" /\ ~l.tensor
    \/ l.op = "classified" /\ l.result.kind # "top"
    \/ l.op = "classified" /\ l.result.probability <= Threshold

C10_NoGuessKeepsPolling ==
    [][NoUsableGuess(last') =>
         /\ UNCHANGED <<predictionFound, prediction>>
         /\ rafPending \ {renders[last'.r].requestAnimationFrameId}
                \subseteq rafPending'
         /\ renders'[last'.r].loop = "raf"
         /\ renders'[last'.r].requestAnimationFrameId \in rafPending']_vars

C10_Witness ==
    /\ last.op = "classified"
    /\ last.result.kind = "top"
    /\ last.result.probability = Threshold
    /\ ~predictionFound
    /\ LoopLive(last.r)

====
